---- MODULE Spec2Model ----
(***************************************************************************)
(* markdown-it-gladest: the `$$ ... $$` block rule and the `$ ... $`       *)
(* inline rule of markdown-it-gladest/src/index.cts, as state machines     *)
(* over the markdown-it parser state they read and write.                  *)
(*                                                                         *)
(* Strings are sequences of one-character strings; positions are 0-based   *)
(* as in the source, so the character at position i of s is s[i + 1].      *)
(***************************************************************************)
EXTENDS Integers, Sequences, FiniteSets, TLC

VARIABLES
    src,      \* state.src
    bMarks,   \* StateBlock.bMarks  (line starts)
    eMarks,   \* StateBlock.eMarks  (line ends)
    tShift,   \* StateBlock.tShift  (offset of first non-space char)
    line,     \* StateBlock.line
    pos,      \* StateInline.pos
    posMax,   \* StateInline.posMax
    tokens,   \* state.tokens (the gladst tokens pushed so far)
    call,     \* the last rule call: its arguments, the state before, its result
    userOptions,  \* the options object handed to md.use(gladstPlugin, options)
    session,      \* gladstPlugin's progress, its internalOptions, what md has registered
    addonCalls,   \* the calls made to the native addon, in order
    renders,      \* per rendered token: was renderLatex called, did it throw
    rendered,     \* the last renderer callback: its token, the addon's behaviour, its result
    mdSessions,   \* several md instances in one process: each one's options and session
    activeFonts,  \* the addon's global font configuration, and the session that set it
    sessionRenders  \* the renderLatex calls of those sessions, with the fonts active then

scanVars == <<src, bMarks, eMarks, tShift, line, pos, posMax, tokens, call>>
singleVars == <<userOptions, session, addonCalls, renders, rendered>>
sessionsVars == <<mdSessions, activeFonts, sessionRenders>>
pluginVars == <<userOptions, session, addonCalls, renders, rendered,
                mdSessions, activeFonts, sessionRenders>>

vars == <<src, bMarks, eMarks, tShift, line, pos, posMax, tokens, call,
          userOptions, session, addonCalls, renders, rendered,
          mdSessions, activeFonts, sessionRenders>>

\* ------------------------------------------------------------- characters
DOLLAR == "$"
BSLASH == "\\"
NL     == "\n"
SP     == " "
LETTER == "a"

\* ------------------------------------------------------------------ bounds
MaxBlockPieces  == 6
MaxInlinePieces == 5
\* characters of src that may lie beyond state.posMax
MaxTail         == 1
\* tokens rendered in one session
MaxRenders      == 2
\* md instances that use the plugin in one process
MaxSessions     == 2

\* ------------------------------------------------ JavaScript string helpers
Min(a, b) == IF a < b THEN a ELSE b
Max(a, b) == IF a > b THEN a ELSE b

\* String.prototype.charCodeAt: NaN (here "") out of range
CharAt(s, i) == IF i >= 0 /\ i < Len(s) THEN s[i + 1] ELSE ""

\* String.prototype.slice(a, b) for 0 <= a
Slice(s, a, b) ==
    LET lo == Min(Max(a, 0), Len(s))
        hi == Min(Max(b, 0), Len(s))
    IN  IF lo >= hi THEN <<>> ELSE SubSeq(s, lo + 1, hi)

\* String.prototype.startsWith(m, p)
StartsWith(s, m, p) ==
    /\ p >= 0
    /\ p + Len(m) <= Len(s)
    /\ \A k \in 1..Len(m) : s[p + k] = m[k]

\* String.prototype.endsWith(m)
EndsWith(s, m) ==
    /\ Len(m) <= Len(s)
    /\ \A k \in 1..Len(m) : s[Len(s) - Len(m) + k] = m[k]

\* String.prototype.indexOf(m, from): first occurrence at or after from, or -1
RECURSIVE IndexOf(_, _, _)
IndexOf(s, m, from) ==
    IF from + Len(m) > Len(s) THEN -1
    ELSE IF StartsWith(s, m, from) THEN from
    ELSE IndexOf(s, m, from + 1)

\* the white space String.prototype.trim removes (of the model's characters)
IsWhite(c) == c = SP \/ c = NL

RECURSIVE TrimStart(_)
TrimStart(s) ==
    IF s # <<>> /\ IsWhite(Head(s)) THEN TrimStart(Tail(s)) ELSE s

RECURSIVE TrimEnd(_)
TrimEnd(s) ==
    IF s # <<>> /\ IsWhite(s[Len(s)]) THEN TrimEnd(SubSeq(s, 1, Len(s) - 1)) ELSE s

\* String.prototype.trim
Trim(s) == TrimEnd(TrimStart(s))

\* a join with no separator
RECURSIVE JoinNone(_)
JoinNone(ls) == IF ls = <<>> THEN <<>> ELSE ls[1] \o JoinNone(Tail(ls))

\* Array.prototype.join("\n")
RECURSIVE JoinNL(_)
JoinNL(ls) ==
    IF ls = <<>> THEN <<>>
    ELSE IF Len(ls) = 1 THEN ls[1]
    ELSE ls[1] \o <<NL>> \o JoinNL(Tail(ls))

\* --------------------------------------------------------- JavaScript values
\* a value of the options object: its typeof tag, its number, its string
Undefined == [t |-> "undefined", n |-> 0, s |-> ""]
Null      == [t |-> "null", n |-> 0, s |-> ""]
Num(n)    == [t |-> "number", n |-> n, s |-> ""]
NaNValue  == [t |-> "number", n |-> 0, s |-> "NaN"]
Str(s)    == [t |-> "string", n |-> 0, s |-> s]

\* typeof v
TypeOf(v) == IF v.t = "null" THEN "object" ELSE v.t

\* the truthiness `if (v)`, `a && b` and `!v` test
Truthy(v) ==
    CASE v.t = "number" -> v.n # 0 /\ v.s # "NaN"
      [] v.t = "string" -> v.s # ""
      [] OTHER -> FALSE

\* ------------------------------------------- the plugin before md.use runs
\* a font slot the user did not give, and a fonts object the user did not give
NoFontSource == [present |-> FALSE, system |-> Undefined, file |-> Undefined]
NoFontConfig == [present |-> FALSE, bodyFont |-> NoFontSource,
                 mathFont |-> NoFontSource]

\* md.use(gladstPlugin) without an options object
NoUserOptions ==
    [present |-> FALSE, format |-> Undefined, ppi |-> Undefined,
     fonts |-> NoFontConfig]

\* InternalRustOptions.fonts: a slot that is not in the result, and undefined
NoSlot  == [type |-> "none", value |-> ""]
NoFonts == [defined |-> FALSE, bodyFont |-> NoSlot, mathFont |-> NoSlot]

NoInternalOptions == [format |-> "", ppi |-> Undefined, fonts |-> NoFonts]

NoSession ==
    [pc |-> "start", error |-> "", internalOptions |-> NoInternalOptions,
     registered |-> {}]

NoRender ==
    [block |-> FALSE, content |-> <<>>, markup |-> <<>>,
     ext |-> [kind |-> "none", value |-> <<>>],
     called |-> FALSE, threw |-> FALSE, html |-> <<>>]

\* the addon before any setFontConfig call: no configuration, set by nobody
NoActiveFonts == [by |-> 0, fonts |-> NoFonts]

\* one md instance alone: no further sessions in the process
SessionsIdle ==
    /\ mdSessions = <<>>
    /\ activeFonts = NoActiveFonts
    /\ sessionRenders = <<>>

\* the scanning machines run with the plugin's own state left alone
PluginIdle ==
    /\ userOptions = NoUserOptions
    /\ session = NoSession
    /\ addonCalls = <<>>
    /\ renders = <<>>
    /\ rendered = NoRender
    /\ SessionsIdle

\* ------------------------------------------------------------ the inputs
\* every concatenation of at most n pieces
RECURSIVE Concats(_, _)
Concats(pieces, n) ==
    IF n = 0 THEN {<<>>}
    ELSE LET prev == Concats(pieces, n - 1)
         IN  prev \cup {s \o p : s \in prev, p \in pieces}

\* block inputs: the marker "$$", line breaks, spaces and letters
BlockPieces  == {<<DOLLAR, DOLLAR>>, <<NL>>, <<SP>>, <<LETTER>>}
\* inline inputs: every string over the five characters
InlinePieces == {<<DOLLAR>>, <<BSLASH>>, <<NL>>, <<SP>>, <<LETTER>>}

BlockInputs  == Concats(BlockPieces, MaxBlockPieces)
InlineInputs == Concats(InlinePieces, MaxInlinePieces)

\* ------------------------------------------- the block state's line marks
\* markdown-it's StateBlock splits src into lines: bMarks[l] is the start of
\* line l, eMarks[l] its end (the position of its "\n", or the length of src)
\* and tShift[l] the number of leading spaces; a trailing entry at Len(src)
\* closes the arrays.
RECURSIVE LineScan(_, _, _, _, _, _)
LineScan(s, p, start, indent, found, acc) ==
    IF p >= Len(s) THEN acc
    ELSE LET ch == s[p + 1] IN
         IF ~found /\ ch = SP
         THEN LineScan(s, p + 1, start, indent + 1, FALSE, acc)
         ELSE IF ch = NL \/ p = Len(s) - 1
         THEN LET e == IF ch = NL THEN p ELSE p + 1
              IN  LineScan(s, e + 1, e + 1, 0, FALSE,
                           Append(acc, [b |-> start, e |-> e, t |-> indent]))
         ELSE LineScan(s, p + 1, start, indent, TRUE, acc)

LineMarks(s) ==
    Append(LineScan(s, 0, 0, 0, FALSE, <<>>), [b |-> Len(s), e |-> Len(s), t |-> 0])

\* state.lineMax
lineMax == Len(bMarks) - 1

\* state.bMarks[l] etc., 0-based
BMark(l) == bMarks[l + 1]
EMark(l) == eMarks[l + 1]
TShift(l) == tShift[l + 1]

\* ------------------------------------------------------------- the tokens
startMarkerBlock == <<DOLLAR, DOLLAR>>
endMarkerBlock   == <<DOLLAR, DOLLAR>>

\* state.push("gladst_block_math", "div", 0) and the fields the rule sets
BlockToken(content, startLine, lastLine) ==
    [type    |-> "gladst_block_math",
     tag     |-> "div",
     block   |-> TRUE,
     content |-> content,
     markup  |-> startMarkerBlock,
     map     |-> <<startLine, lastLine>>]

\* the outcome of one rule call: what it returns, the tokens it pushes and
\* the cursor (state.line or state.pos) it leaves
Outcome(ret, push, cursor) == [ret |-> ret, push |-> push, cursor |-> cursor]

NoCall ==
    [rule |-> "none", silent |-> FALSE, startLine |-> 0, endLine |-> 0,
     ret |-> FALSE, cursor0 |-> 0, ntok0 |-> 0]

\* ---------------------------------------------------------- gladstBlockRule
\* const pos = state.bMarks[startLine] + state.tShift[startLine]
BlockPos(startLine) == BMark(startLine) + TShift(startLine)

\* the last "$$" on the line instead of the first occurrence
lastLineEndMarkerPos(startLine) ==
    LET from == BMark(startLine) + TShift(startLine) + Len(startMarkerBlock)
        at   == {k \in from..(EMark(startLine) - Len(endMarkerBlock)) :
                     StartsWith(src, endMarkerBlock, k)}
    IN  IF at = {} THEN IndexOf(src, endMarkerBlock, from)
        ELSE CHOOSE k \in at : \A j \in at : j <= k

\* state.src.indexOf(endMarker, pos + startMarker.length)
firstLineEndMarkerPos(startLine) ==
    IndexOf(src, endMarkerBlock, BlockPos(startLine) + Len(startMarkerBlock))

\* the test guarding the same-line ("quick end") branch
QuickEnd(startLine) ==
    /\ firstLineEndMarkerPos(startLine) # -1
    /\ firstLineEndMarkerPos(startLine) <= EMark(startLine) - Len(endMarkerBlock)

\* the same-line content without the trim
QuickContentUntrimmed(startLine) ==
    Slice(src, BlockPos(startLine) + Len(startMarkerBlock),
          firstLineEndMarkerPos(startLine))

\* content of the same-line branch
QuickContent(startLine) ==
    Trim(Slice(src, BlockPos(startLine) + Len(startMarkerBlock),
               firstLineEndMarkerPos(startLine)))

\* a same-line branch without the `if (silent) return true`
QuickOutcomeNoSilent(startLine, silent) ==
    Outcome(TRUE,
            <<BlockToken(QuickContent(startLine), startLine, startLine + 1)>>,
            startLine + 1)

\* the same-line branch
QuickOutcome(startLine, silent) ==
    IF silent THEN Outcome(TRUE, <<>>, line)
    ELSE Outcome(TRUE,
                 <<BlockToken(QuickContent(startLine), startLine, startLine + 1)>>,
                 startLine + 1)

\* contentLines.push(state.src.slice(pos + startMarker.length, max).trim())
FirstLineRest(startLine) ==
    Trim(Slice(src, BlockPos(startLine) + Len(startMarkerBlock), EMark(startLine)))

\* const lineText = state.src.slice(lineStart, lineMax).trim()
LineText(l) == Trim(Slice(src, BMark(l) + TShift(l), EMark(l)))

\* state.src.slice(state.bMarks[nextLine], state.eMarks[nextLine])
RawLine(l) == Slice(src, BMark(l), EMark(l))

\* lineText.slice(0, lineText.length - endMarker.length).trim()
BeforeEndMarker(lineText) ==
    Trim(Slice(lineText, 0, Len(lineText) - Len(endMarkerBlock)))

\* token.content = contentLines.join("\n").trim()
JoinedContent(contentLines) == Trim(JoinNL(contentLines))

\* a rule that would emit what it has gathered when the lines run out
UnterminatedPartial(startLine, endLine, silent, contentLines) ==
    IF silent THEN Outcome(TRUE, <<>>, line)
    ELSE Outcome(TRUE, <<BlockToken(JoinedContent(contentLines), startLine, endLine)>>,
                 endLine)

\* "End marker not found after checking all lines": return false
Unterminated(startLine, endLine, silent, contentLines) ==
    Outcome(FALSE, <<>>, line)

\* the while loop over the following lines
RECURSIVE MultiLine(_, _, _, _, _)
MultiLine(startLine, endLine, silent, nextLine, contentLines) ==
    IF nextLine >= endLine
    THEN Unterminated(startLine, endLine, silent, contentLines)
    ELSE IF LineText(nextLine) = endMarkerBlock
    THEN IF silent THEN Outcome(TRUE, <<>>, line)
         ELSE Outcome(TRUE,
                      <<BlockToken(JoinedContent(contentLines), startLine, nextLine + 1)>>,
                      nextLine + 1)
    ELSE IF EndsWith(LineText(nextLine), endMarkerBlock)
    THEN IF silent THEN Outcome(TRUE, <<>>, line)
         ELSE Outcome(TRUE,
                      <<BlockToken(
                          JoinedContent(Append(contentLines,
                                               BeforeEndMarker(LineText(nextLine)))),
                          startLine, nextLine + 1)>>,
                      nextLine + 1)
    ELSE MultiLine(startLine, endLine, silent, nextLine + 1,
                   Append(contentLines, RawLine(nextLine)))

gladstBlockRule(startLine, endLine, silent) ==
    IF ~StartsWith(src, startMarkerBlock, BlockPos(startLine))
    THEN Outcome(FALSE, <<>>, line)
    ELSE IF QuickEnd(startLine)
    THEN QuickOutcome(startLine, silent)
    ELSE MultiLine(startLine, endLine, silent, startLine + 1,
                   <<FirstLineRest(startLine)>>)

\* ------------------------------------------------- the block state machine
InitBlock ==
    /\ PluginIdle
    /\ src \in BlockInputs
    /\ bMarks = [i \in 1..Len(LineMarks(src)) |-> LineMarks(src)[i].b]
    /\ eMarks = [i \in 1..Len(LineMarks(src)) |-> LineMarks(src)[i].e]
    /\ tShift = [i \in 1..Len(LineMarks(src)) |-> LineMarks(src)[i].t]
    /\ line = 0
    /\ pos = 0
    /\ posMax = Len(src)
    /\ tokens = <<>>
    /\ call = NoCall

\* the block tokenizer runs the rule at state.line
BlockCall ==
    \E endLine \in (line + 1)..lineMax :
        LET r == gladstBlockRule(line, endLine, FALSE) IN
        /\ tokens' = tokens \o r.push
        /\ line' = r.cursor
        /\ call' = [rule |-> "block", silent |-> FALSE, startLine |-> line,
                    endLine |-> endLine, ret |-> r.ret, cursor0 |-> line,
                    ntok0 |-> Len(tokens)]
        /\ UNCHANGED <<src, bMarks, eMarks, tShift, pos, posMax>>
        /\ UNCHANGED pluginVars

\* another rule probes the rule as a terminator at a later line
BlockProbe ==
    \E startLine \in line..(lineMax - 1) :
    \E endLine \in (startLine + 1)..lineMax :
        LET r == gladstBlockRule(startLine, endLine, TRUE) IN
        /\ tokens' = tokens \o r.push
        /\ line' = r.cursor
        /\ call' = [rule |-> "block", silent |-> TRUE, startLine |-> startLine,
                    endLine |-> endLine, ret |-> r.ret, cursor0 |-> line,
                    ntok0 |-> Len(tokens)]
        /\ UNCHANGED <<src, bMarks, eMarks, tShift, pos, posMax>>
        /\ UNCHANGED pluginVars

\* another block rule (paragraph, ...) takes the line at state.line
BlockOtherRule ==
    /\ line < lineMax
    /\ line' = line + 1
    /\ call' = NoCall
    /\ UNCHANGED <<src, bMarks, eMarks, tShift, pos, posMax, tokens>>
    /\ UNCHANGED pluginVars

NextBlock == BlockCall \/ BlockProbe \/ BlockOtherRule

SpecBlock == InitBlock /\ [][NextBlock]_vars

\* --------------------------------------------------------- gladstInlineRule
startMarkerInline == <<DOLLAR>>
endMarkerInline   == <<DOLLAR>>

\* state.push("gladst_inline_math", "span", 0) and the fields the rule sets
InlineToken(content) ==
    [type    |-> "gladst_inline_math",
     tag     |-> "span",
     block   |-> FALSE,
     content |-> content,
     markup  |-> startMarkerInline,
     map     |-> <<>>]

\* a look-ahead that never sees a second "$"
NextCharNone(currentPos) == ""

\* const nextChar = currentPos + 1 < state.posMax ? charCodeAt(currentPos + 1) : -1
NextChar(currentPos) ==
    IF currentPos + 1 < posMax THEN CharAt(src, currentPos + 1) ELSE ""

\* a loop without the escape branch: a backslash is an ordinary character
RECURSIVE FindClosingNoEscape(_)
FindClosingNoEscape(currentPos) ==
    IF currentPos >= posMax THEN -1
    ELSE IF CharAt(src, currentPos) = DOLLAR
    THEN IF NextChar(currentPos) = DOLLAR
         THEN FindClosingNoEscape(currentPos + 2)
         ELSE currentPos
    ELSE IF CharAt(src, currentPos) = NL
    THEN -1
    ELSE FindClosingNoEscape(currentPos + 1)

\* the while loop: the position of the closing marker (endPos), or -1 when
\* the loop ends with foundClosing = false
RECURSIVE FindClosing(_)
FindClosing(currentPos) ==
    IF currentPos >= posMax THEN -1
    ELSE IF CharAt(src, currentPos) = DOLLAR
    THEN IF NextChar(currentPos) = DOLLAR
         THEN FindClosing(currentPos + 2)
         ELSE currentPos
    ELSE IF CharAt(src, currentPos) = BSLASH
    THEN FindClosing(currentPos + 2)
    ELSE IF CharAt(src, currentPos) = NL
    THEN -1
    ELSE FindClosing(currentPos + 1)

\* the tests before the loop without the escaped-dollar test
OpensInlineNoEscape(p) ==
    /\ CharAt(src, p) = DOLLAR
    /\ CharAt(src, p + 1) # DOLLAR

\* the three tests before the loop: at "$", not after "\", not before "$"
OpensInline(p) ==
    /\ CharAt(src, p) = DOLLAR
    /\ ~(p > 0 /\ CharAt(src, p - 1) = BSLASH)
    /\ CharAt(src, p + 1) # DOLLAR

\* const content = state.src.slice(pos + startMarker.length, endPos).trim()
InlineContent(p, endPos) == Trim(Slice(src, p + Len(startMarkerInline), endPos))

\* a cursor left on the closing marker
InlineNewPosOnMarker(endPos) == endPos

\* state.pos = endPos + endMarker.length
InlineNewPos(endPos) == endPos + Len(endMarkerInline)

\* a rule that moves state.pos before it rejects an empty formula
gladstInlineRuleEager(silent) ==
    LET endPos == FindClosing(pos + Len(startMarkerInline)) IN
    IF ~OpensInline(pos) THEN Outcome(FALSE, <<>>, pos)
    ELSE IF endPos < 0 THEN Outcome(FALSE, <<>>, pos)
    ELSE IF silent THEN Outcome(TRUE, <<>>, pos)
    ELSE IF InlineContent(pos, endPos) = <<>>
    THEN Outcome(FALSE, <<>>, InlineNewPos(endPos))
    ELSE Outcome(TRUE, <<InlineToken(InlineContent(pos, endPos))>>,
                 InlineNewPos(endPos))

gladstInlineRule(silent) ==
    LET endPos == FindClosing(pos + Len(startMarkerInline)) IN
    IF ~OpensInline(pos) THEN Outcome(FALSE, <<>>, pos)
    ELSE IF endPos < 0 THEN Outcome(FALSE, <<>>, pos)
    ELSE IF silent THEN Outcome(TRUE, <<>>, pos)
    ELSE IF InlineContent(pos, endPos) = <<>> THEN Outcome(FALSE, <<>>, pos)
    ELSE Outcome(TRUE, <<InlineToken(InlineContent(pos, endPos))>>,
                 InlineNewPos(endPos))

\* ------------------------------------------------ the inline state machine
InitInline ==
    /\ PluginIdle
    /\ src \in InlineInputs
    /\ posMax \in {n \in 0..Len(src) : n >= Len(src) - MaxTail}
    /\ pos = 0
    /\ bMarks = <<>>
    /\ eMarks = <<>>
    /\ tShift = <<>>
    /\ line = 0
    /\ tokens = <<>>
    /\ call = NoCall

\* the inline tokenizer runs the rule at state.pos
InlineCall ==
    LET r == gladstInlineRule(FALSE) IN
    /\ pos < posMax
    /\ tokens' = tokens \o r.push
    /\ pos' = r.cursor
    /\ call' = [rule |-> "inline", silent |-> FALSE, startLine |-> 0,
                endLine |-> 0, ret |-> r.ret, cursor0 |-> pos,
                ntok0 |-> Len(tokens)]
    /\ UNCHANGED <<src, bMarks, eMarks, tShift, line, posMax>>
    /\ UNCHANGED pluginVars

\* skipToken runs the rule in silent mode at state.pos
InlineProbe ==
    LET r == gladstInlineRule(TRUE) IN
    /\ pos < posMax
    /\ tokens' = tokens \o r.push
    /\ pos' = r.cursor
    /\ call' = [rule |-> "inline", silent |-> TRUE, startLine |-> 0,
                endLine |-> 0, ret |-> r.ret, cursor0 |-> pos,
                ntok0 |-> Len(tokens)]
    /\ UNCHANGED <<src, bMarks, eMarks, tShift, line, posMax>>
    /\ UNCHANGED pluginVars

\* another inline rule (text, escape, ...) takes the character at state.pos
InlineOtherRule ==
    /\ pos < posMax
    /\ pos' = pos + 1
    /\ call' = NoCall
    /\ UNCHANGED <<src, bMarks, eMarks, tShift, line, posMax, tokens>>
    /\ UNCHANGED pluginVars

NextInline == InlineCall \/ InlineProbe \/ InlineOtherRule

SpecInline == InitInline /\ [][NextInline]_vars

\* ------------------------------------------------------ the user's options
\* GladstPluginOptions.format: absent, the two documented values, other strings
Formats == {Undefined, Str("svg"), Str("png"), Str("PNG")}

\* GladstPluginOptions.ppi: absent, null, a string, NaN, zero, negative, positive
Ppis == {Undefined, Null, Str("600"), NaNValue, Num(0), Num(-1), Num(72),
         Num(600)}

\* FontSource: absent, or an object with `system` and `file` each absent or
\* given (a given `system` may be the empty string)
FontSources ==
    {NoFontSource} \cup
    {[present |-> TRUE, system |-> s, file |-> f] :
        s \in {Undefined, Str(""), Str("Noto Serif")},
        f \in {Undefined, Str("./math.otf")}}

FontConfigs ==
    {NoFontConfig} \cup
    {[present |-> TRUE, bodyFont |-> b, mathFont |-> m] :
        b \in FontSources, m \in FontSources}

UserOptions ==
    {NoUserOptions} \cup
    {[present |-> TRUE, format |-> f, ppi |-> p, fonts |-> c] :
        f \in Formats, p \in Ppis, c \in FontConfigs}

\* ------------------------------------------------------ normalizeFontConfig
SlotConflictNever(source) == FALSE

\* fonts.xFont && fonts.xFont.system && fonts.xFont.file
SlotConflict(source) ==
    source.present /\ Truthy(source.system) /\ Truthy(source.file)

\* the slot written to the result: system first, else file, else none
NormalizeSlot(source) ==
    IF ~source.present THEN NoSlot
    ELSE IF Truthy(source.system)
    THEN [type |-> "system", value |-> source.system.s]
    ELSE IF Truthy(source.file)
    THEN [type |-> "file", value |-> source.file.s]
    ELSE NoSlot

\* the normalized fonts, or the message of the Error it throws
normalizeFontConfig(fonts) ==
    IF ~fonts.present THEN [threw |-> "", value |-> NoFonts]
    ELSE IF SlotConflict(fonts.bodyFont)
    THEN [threw |-> "Cannot specify both system and file for body font",
          value |-> NoFonts]
    ELSE IF SlotConflict(fonts.mathFont)
    THEN [threw |-> "Cannot specify both system and file for math font",
          value |-> NoFonts]
    ELSE LET b == NormalizeSlot(fonts.bodyFont)
             m == NormalizeSlot(fonts.mathFont)
         IN  [threw |-> "",
              value |-> IF b = NoSlot /\ m = NoSlot THEN NoFonts
                        ELSE [defined |-> TRUE, bodyFont |-> b,
                              mathFont |-> m]]

\* -------------------------------------------------------------- gladstPlugin
\* the resolution the plugin falls back to
DefaultPpi == 300

NormalizeFormatAny(options) ==
    IF options.format.t = "string" THEN options.format.s ELSE "svg"

\* options?.format === "png" ? "png" : "svg"
NormalizeFormat(options) ==
    IF options.format = Str("png") THEN "png" ELSE "svg"

\* typeof options?.ppi === "number" && options.ppi > 0 ? options.ppi : 300
NormalizePpi(options) ==
    IF /\ TypeOf(options.ppi) = "number"
       /\ options.ppi.s # "NaN"
       /\ options.ppi.n > 0
    THEN options.ppi
    ELSE Num(DefaultPpi)

\* what addon.setFontConfig may do: return true, return false, throw
SetFontOutcomes == {"true", "false", "throw"}

SetsFontsAlways(io) == TRUE

\* if (internalOptions.fonts)
SetsFonts(io) == io.fonts.defined

AfterSetFontConfigUncaught(outcome) ==
    IF outcome = "throw" THEN "threw" ELSE "registering"

\* the try/catch around addon.setFontConfig: a false return is warned about,
\* a throw is logged, and the function goes on
AfterSetFontConfig(outcome) == "registering"

\* the two rules and the two renderer callbacks the plugin registers on md
Registrations ==
    {"block.ruler:gladst_block", "inline.ruler:gladst_inline",
     "renderer.rules:gladst_block_math", "renderer.rules:gladst_inline_math"}

\* md.use(gladstPlugin, options), with the behaviour of addon.setFontConfig:
\* the session it leaves and the addon calls it makes
gladstPlugin(options, outcome) ==
    LET fonts == normalizeFontConfig(options.fonts)
        io    == [format |-> NormalizeFormat(options),
                  ppi    |-> NormalizePpi(options),
                  fonts  |-> fonts.value]
        calls == IF SetsFonts(io)
                 THEN <<[fn |-> "setFontConfig", options |-> io,
                         result |-> outcome]>>
                 ELSE <<>>
        after == IF SetsFonts(io) THEN AfterSetFontConfig(outcome)
                 ELSE "registering"
    IN  IF fonts.threw # ""
        THEN [session |-> [pc |-> "threw", error |-> fonts.threw,
                           internalOptions |-> NoInternalOptions,
                           registered |-> {}],
              calls |-> <<>>]
        ELSE IF after = "threw"
        THEN [session |-> [pc |-> "threw", error |-> "setFontConfig",
                           internalOptions |-> io, registered |-> {}],
              calls |-> calls]
        ELSE [session |-> [pc |-> "installed", error |-> "",
                           internalOptions |-> io,
                           registered |-> Registrations],
              calls |-> calls]

\* ------------------------------------------------------------ renderFormula
\* the characters of formulas and error messages: a letter and the three
\* reserved markup characters
LT    == "<"
GT    == ">"
QUOTE == "\""
TextChars == {LETTER, LT, GT, QUOTE}

\* the longest formula text and error message
MaxText == 2

Texts == Concats({<<c>> : c \in TextChars}, MaxText)

\* String.prototype.replace(/c/g, by)
RECURSIVE ReplaceAll(_, _, _)
ReplaceAll(s, c, by) ==
    IF s = <<>> THEN <<>>
    ELSE (IF Head(s) = c THEN by ELSE <<Head(s)>>) \o ReplaceAll(Tail(s), c, by)

\* .replace(/</g, "&lt;").replace(/>/g, "&gt;")
EscapeAngles(s) == ReplaceAll(ReplaceAll(s, LT, <<"&", "l", "t",
      ";">>), GT, <<"&", "g", "t", ";">>)

EscapeQuotesNone(s) == s

\* .replace(/"/g, "&quot;")
EscapeQuotes(s) == ReplaceAll(s, QUOTE, <<"&", "q", "u", "o", "t", ";">>)

\* isBlock ? "div" : "span"
Tag(isBlock) == IF isBlock THEN <<"d", "i", "v">> ELSE <<"s", "p", "a", "n">>

\* isBlock ? "block" : "inline"
BlockOrInline(isBlock) == IF isBlock THEN <<"b", "l", "o", "c",
      "k">> ELSE <<"i", "n", "l", "i", "n", "e">>

\* the fragment for a token without content or markup
TokenInvalid(isBlock) ==
    <<"<">> \o Tag(isBlock) \o <<" ", "c", "l", "a", "s", "s", "=", "\"",
          "g", "l", "a", "d", "s", "t", "-", "e", "r", "r", "o", "r", "-">>
    \o BlockOrInline(isBlock)
    \o <<"\"", ">", "I", "n", "t", "e", "r", "n", "a", "l", " ", "P", "l",
          "u", "g", "i", "n", " ", "E", "r", "r", "o", "r", ":", " ", "T",
                "o", "k", "e", "n", " ", "i", "n", "v", "a", "l", "i",
                      "d", "<", "/">>
    \o Tag(isBlock) \o <<">">>

\* the two prefixes by which the addon's own error fragments are recognised
SpanErrorPrefix == <<"<", "s", "p", "a", "n", " ", "c", "l", "a", "s",
      "s", "=", "\"", "g", "l", "a", "d", "s", "t", "-", "e", "r", "r",
            "o", "r">>
DivErrorPrefix  == <<"<", "d", "i", "v", " ", "c", "l", "a", "s", "s",
      "=", "\"", "g", "l", "a", "d", "s", "t", "-", "e", "r", "r", "o", "r">>

IsRustErrorNever(htmlOutput) == FALSE

\* htmlOutput.startsWith('<span class="gladst-error') ||
\* htmlOutput.startsWith('<div class="gladst-error')
IsRustError(htmlOutput) ==
    \/ StartsWith(htmlOutput, SpanErrorPrefix, 0)
    \/ StartsWith(htmlOutput, DivErrorPrefix, 0)

\* `<${wrapperTag} class="${wrapperClass}">${htmlOutput}</${wrapperTag}>`
Wrapped(htmlOutput, isBlock) ==
    <<"<">> \o Tag(isBlock) \o <<" ", "c", "l", "a", "s", "s", "=", "\"",
          "g", "l", "a", "d", "s", "t", "-">> \o BlockOrInline(isBlock)
    \o <<"\"", ">">> \o htmlOutput \o <<"<", "/">> \o Tag(isBlock) \o <<">">>

\* what addon.renderLatex does in one call: returns a string, returns a value
\* that is not a string, throws an Error with a message, throws another value
Img           == <<"<", "i", "m", "g", " ", "s", "r", "c", "=", "\"", "a",
      ".", "s", "v", "g", "\"", ">">>
RustSpanError == <<"<", "s", "p", "a", "n", " ", "c", "l", "a", "s", "s",
      "=", "\"", "g", "l", "a", "d", "s", "t", "-", "e", "r", "r", "o",
            "r", "-", "i", "n", "l", "i", "n", "e", "\"", ">", "b", "a",
                  "d", "<", "/", "s", "p", "a", "n", ">">>
RustDivError  == <<"<", "d", "i", "v", " ", "c", "l", "a", "s", "s", "=",
      "\"", "g", "l", "a", "d", "s", "t", "-", "e", "r", "r", "o", "r",
            "-", "b", "l", "o", "c", "k", "\"", ">", "b", "a", "d", "<",
                  "/", "d", "i", "v", ">">>
Returns ==
    {<<>>, <<LT>>, Img, RustSpanError, RustDivError,
     <<"<", "s", "p", "a", "n", " ", "c", "l", "a", "s", "s", "=", "\"",
           "g", "l", "a", "d", "s", "t", "-", "e", "r", "r", "\"",
                 ">">>, <<SP>> \o RustDivError}

RenderLatexBehaviours ==
    {[kind |-> "return", value |-> v] : v \in Returns}
    \cup {[kind |-> "returnOther", value |-> <<>>]}
    \cup {[kind |-> "throwError", value |-> m] : m \in Texts}
    \cup {[kind |-> "throwOther", value |-> <<>>]}

\* does control reach the catch block: renderLatex threw, or it returned a
\* value without startsWith and the call of startsWith threw a TypeError
Caught(ext) == ext.kind # "return"

\* the value the catch block receives
CaughtError(ext) ==
    CASE ext.kind = "throwError" ->
            [isError |-> TRUE, message |-> ext.value]
      [] ext.kind = "returnOther" ->
            [isError |-> TRUE,
             message |-> <<"h", "t", "m", "l", "O", "u", "t", "p", "u",
                   "t", ".", "s", "t", "a", "r", "t", "s", "W", "i", "t",
                         "h", " ", "i", "s", " ", "n", "o", "t", " ", "a",
                               " ", "f", "u", "n", "c", "t", "i", "o", "n">>]
      [] OTHER -> [isError |-> FALSE, message |-> <<>>]

\* safeError
SafeError(ext) ==
    IF CaughtError(ext).isError
    THEN EscapeAngles(CaughtError(ext).message)
    ELSE <<"U", "n", "k", "n", "o", "w", "n", " ", "r", "e", "n", "d",
          "e", "r", " ", "e", "x", "e", "c", "u", "t", "i", "o", "n", " ",
                "e", "r", "r", "o", "r">>

\* `title="${safeError.replace(/"/g, "&quot;")}"`
Title(ext) == <<"t", "i", "t", "l", "e", "=",
      "\"">> \o EscapeQuotes(SafeError(ext)) \o <<"\"">>

\* the fragment the catch block returns
CriticalError(formula, delimiter, isBlock, ext) ==
    <<"<">> \o Tag(isBlock) \o <<" ", "c", "l", "a", "s", "s", "=", "\"",
          "g", "l", "a", "d", "s", "t", "-", "e", "r", "r", "o", "r", "-">>
    \o BlockOrInline(isBlock) \o <<"\"", " ">> \o Title(ext)
    \o <<">", "C", "r", "i", "t", "i", "c", "a", "l", " ", "E", "r", "r",
          "o", "r", " ", "r", "e", "n", "d", "e", "r", "i", "n", "g", ":",
                " ">>
    \o delimiter \o EscapeAngles(formula) \o delimiter
    \o <<"<", "/">> \o Tag(isBlock) \o <<">">>

TokenMissingContentOnly(formula, delimiter) == formula = <<>>

\* !formula || !delimiter
TokenMissing(formula, delimiter) == formula = <<>> \/ delimiter = <<>>

\* renderFormula under one behaviour of addon.renderLatex: was the addon
\* called, did the callback throw, and the string it returned
renderFormula(formula, delimiter, isBlock, ext) ==
    IF TokenMissing(formula, delimiter)
    THEN [called |-> FALSE, threw |-> FALSE, html |-> TokenInvalid(isBlock)]
    ELSE IF Caught(ext)
    THEN [called |-> TRUE, threw |-> FALSE,
          html |-> CriticalError(formula, delimiter, isBlock, ext)]
    ELSE IF IsRustError(ext.value)
    THEN [called |-> TRUE, threw |-> FALSE, html |-> ext.value]
    ELSE [called |-> TRUE, threw |-> FALSE,
          html |-> Wrapped(ext.value, isBlock)]

\* the tokens the two rules hand to the renderer: a block token carries "$$"
\* and any content, an inline token carries "$" and content that is not empty
BlockTokens ==
    {[block |-> TRUE, content |-> c, markup |-> startMarkerBlock] :
        c \in Texts}
InlineTokens ==
    {[block |-> FALSE, content |-> c, markup |-> startMarkerInline] :
        c \in Texts \ {<<>>}}
\* tokens of the two types that the host or another plugin builds itself:
\* without markup, and an inline token without content
HostTokens ==
    {[block |-> b, content |-> c, markup |-> <<>>] :
        b \in BOOLEAN, c \in {<<>>, <<LETTER>>}}
    \cup {[block |-> FALSE, content |-> <<>>, markup |-> startMarkerInline]}
RenderTokens == BlockTokens \cup InlineTokens \cup HostTokens

\* ------------------------------------------------ the plugin state machine
ScanIdle ==
    /\ src = <<>>
    /\ bMarks = <<>>
    /\ eMarks = <<>>
    /\ tShift = <<>>
    /\ line = 0
    /\ pos = 0
    /\ posMax = 0
    /\ tokens = <<>>
    /\ call = NoCall

InitPlugin ==
    /\ ScanIdle
    /\ SessionsIdle
    /\ userOptions \in UserOptions
    /\ session = NoSession
    /\ addonCalls = <<>>
    /\ renders = <<>>
    /\ rendered = NoRender

\* the host calls md.use(gladstPlugin, userOptions)
Install ==
    /\ session.pc = "start"
    /\ \E outcome \in SetFontOutcomes :
        LET r == gladstPlugin(userOptions, outcome) IN
        /\ session' = r.session
        /\ addonCalls' = addonCalls \o r.calls
    /\ UNCHANGED <<userOptions, renders, rendered>>
    /\ UNCHANGED sessionsVars
    /\ UNCHANGED scanVars

\* the renderer rule a token's type selects
RendererRule(tok) ==
    IF tok.block THEN "renderer.rules:gladst_block_math"
    ELSE "renderer.rules:gladst_inline_math"

\* the host's renderer reaches a math token and calls its renderer rule
RenderToken(tok, ext) ==
    LET r == renderFormula(tok.content, tok.markup, tok.block, ext) IN
    /\ session.pc = "installed"
    /\ RendererRule(tok) \in session.registered
    /\ rendered' = [block |-> tok.block, content |-> tok.content,
                    markup |-> tok.markup, ext |-> ext,
                    called |-> r.called, threw |-> r.threw, html |-> r.html]
    /\ renders' = Append(renders, [called |-> r.called,
                                   failed |-> r.called /\ Caught(ext)])
    /\ addonCalls' =
         IF r.called
         THEN Append(addonCalls, [fn |-> "renderLatex",
                                  options |-> session.internalOptions,
                                  result |-> ext.kind])
         ELSE addonCalls
    /\ UNCHANGED <<userOptions, session>>
    /\ UNCHANGED sessionsVars
    /\ UNCHANGED scanVars

\* a document of up to MaxRenders math tokens is rendered in the session
PluginTokens ==
    {[block |-> TRUE, content |-> <<LETTER>>, markup |-> startMarkerBlock],
     [block |-> TRUE, content |-> <<>>, markup |-> startMarkerBlock],
     [block |-> FALSE, content |-> <<LETTER>>, markup |-> startMarkerInline]}
PluginBehaviours ==
    {[kind |-> "return", value |-> Img],
     [kind |-> "throwOther", value |-> <<>>]}

PluginRender ==
    /\ Len(renders) < MaxRenders
    /\ \E tok \in PluginTokens, ext \in PluginBehaviours : RenderToken(tok, ext)

NextPlugin == Install \/ PluginRender

SpecPlugin == InitPlugin /\ [][NextPlugin]_vars

\* ------------------------------------------------ the render state machine
\* a session installed without options
InitRender ==
    /\ ScanIdle
    /\ SessionsIdle
    /\ userOptions = NoUserOptions
    /\ session = gladstPlugin(NoUserOptions, "true").session
    /\ addonCalls = <<>>
    /\ renders = <<>>
    /\ rendered = NoRender

\* the renderer rule is called for one token, under every behaviour of the addon
DocRender ==
    /\ renders = <<>>
    /\ \E tok \in RenderTokens, ext \in RenderLatexBehaviours :
        RenderToken(tok, ext)

NextRender == DocRender

SpecRender == InitRender /\ [][NextRender]_vars

\* ---------------------------------------------- the sessions state machine
\* the md instances of the process
SessionIds == 1..MaxSessions

\* the options the instances are installed with: none, a body font by system
\* name, a math font by file
BodyFontOptions ==
    [present |-> TRUE, format |-> Undefined, ppi |-> Undefined,
     fonts |-> [present |-> TRUE,
                bodyFont |-> [present |-> TRUE, system |-> Str("Noto Serif"),
                              file |-> Undefined],
                mathFont |-> NoFontSource]]
MathFontOptions ==
    [present |-> TRUE, format |-> Undefined, ppi |-> Undefined,
     fonts |-> [present |-> TRUE,
                bodyFont |-> NoFontSource,
                mathFont |-> [present |-> TRUE, system |-> Undefined,
                              file |-> Str("./math.otf")]]]
SessionOptions == {NoUserOptions, BodyFontOptions, MathFontOptions}

\* addon.setFontConfig "updates the global font configuration for all
\* subsequent renders": a successful call by session i replaces it
SetFontConfig(i, fonts, outcome) ==
    IF outcome = "true" THEN [by |-> i, fonts |-> fonts] ELSE activeFonts

InitSessions ==
    /\ ScanIdle
    /\ userOptions = NoUserOptions
    /\ session = NoSession
    /\ addonCalls = <<>>
    /\ renders = <<>>
    /\ rendered = NoRender
    /\ mdSessions \in [SessionIds ->
                        {[userOptions |-> o, session |-> NoSession,
                          fontResult |-> "none"] : o \in SessionOptions}]
    /\ activeFonts = NoActiveFonts
    /\ sessionRenders = <<>>

\* the host calls md.use(gladstPlugin, options) on instance i
SessionInstall(i) ==
    /\ mdSessions[i].session.pc = "start"
    /\ \E outcome \in SetFontOutcomes :
        LET r == gladstPlugin(mdSessions[i].userOptions, outcome) IN
        /\ mdSessions' =
             [mdSessions EXCEPT
                 ![i].session = r.session,
                 ![i].fontResult = IF r.calls = <<>> THEN "none" ELSE outcome]
        /\ activeFonts' =
             IF r.calls = <<>> THEN activeFonts
             ELSE SetFontConfig(i, r.calls[1].options.fonts, outcome)
    /\ UNCHANGED sessionRenders
    /\ UNCHANGED singleVars
    /\ UNCHANGED scanVars

\* instance i renders a math token: its renderer callback calls renderLatex
\* with the session's internalOptions, under the fonts active in the addon
SessionRender(i) ==
    /\ mdSessions[i].session.pc = "installed"
    /\ Len(sessionRenders) < MaxRenders
    /\ \E tok \in PluginTokens, ext \in PluginBehaviours :
        LET r == renderFormula(tok.content, tok.markup, tok.block, ext) IN
        /\ RendererRule(tok) \in mdSessions[i].session.registered
        /\ r.called
        /\ sessionRenders' =
             Append(sessionRenders,
                    [session |-> i,
                     options |-> mdSessions[i].session.internalOptions,
                     active  |-> activeFonts])
    /\ UNCHANGED <<mdSessions, activeFonts>>
    /\ UNCHANGED singleVars
    /\ UNCHANGED scanVars

SessionsInstall == \E i \in SessionIds : SessionInstall(i)
SessionsRender  == \E i \in SessionIds : SessionRender(i)

NextSessions == SessionsInstall \/ SessionsRender

SpecSessions == InitSessions /\ [][NextSessions]_vars

\* ======================================================================
\* Properties of the block rule (checked under SpecBlock)
\* ======================================================================
\* s without its leading and trailing white space, stated by positions
TrimSpec(s) ==
    LET black == {i \in 1..Len(s) : ~IsWhite(s[i])}
    IN  IF black = {} THEN <<>>
        ELSE SubSeq(s, CHOOSE i \in black : \A j \in black : i <= j,
                       CHOOSE i \in black : \A j \in black : i >= j)

\* the text of src from position a up to, not including, position b
Text(a, b) == [i \in 1..(b - a) |-> src[a + i]]

\* "$$" stands at position k of src
MarkerAt(k) == CharAt(src, k) = DOLLAR /\ CharAt(src, k + 1) = DOLLAR

\* where line l begins after its indentation
Indented(l) == BMark(l) + TShift(l)

\* line l begins, after its indentation, with "$$"
OpensBlock(l) == MarkerAt(Indented(l))

\* the positions on line l, after the opening marker, where a closing "$$" stands
ClosersOn(l) == {k \in (Indented(l) + 2)..(EMark(l) - 2) : MarkerAt(k)}

FirstCloserOn(l) == CHOOSE k \in ClosersOn(l) : \A j \in ClosersOn(l) : k <= j

\* line l, trimmed, is exactly "$$" / ends with "$$"
ExactlyMarker(l) == TrimSpec(Text(BMark(l), EMark(l))) = <<DOLLAR, DOLLAR>>
EndsWithMarker(l) ==
    LET t == TrimSpec(Text(BMark(l), EMark(l)))
    IN  Len(t) >= 2 /\ t[Len(t) - 1] = DOLLAR /\ t[Len(t)] = DOLLAR

LastToken == tokens[Len(tokens)]
BlockCalled == call.rule = "block"
PushedOne == Len(tokens) = call.ntok0 + 1
PushedNone == Len(tokens) = call.ntok0

\* C1: block rule, fast path. After a non-silent call at a line that begins
\* (after its indentation) with "$$" and holds a second "$$" later on the
\* same line: the call returned true, pushed exactly one gladst_block_math
\* token whose content is the trimmed text strictly between the opening "$$"
\* and the first such closing "$$", token.map = [startLine, startLine + 1]
\* and state.line = startLine + 1.
C1_FastPath ==
    (/\ BlockCalled /\ ~call.silent
     /\ OpensBlock(call.startLine)
     /\ ClosersOn(call.startLine) # {})
    => /\ call.ret
       /\ PushedOne
       /\ LastToken.type = "gladst_block_math"
       /\ LastToken.content =
            TrimSpec(Text(Indented(call.startLine) + 2, FirstCloserOn(call.startLine)))
       /\ LastToken.map = <<call.startLine, call.startLine + 1>>
       /\ line = call.startLine + 1

\* C1 witness: a fast-path call whose text between the markers has white
\* space to trim on both sides and text after the closing marker's line
C1_Witness ==
    /\ BlockCalled /\ ~call.silent
    /\ OpensBlock(call.startLine)
    /\ ClosersOn(call.startLine) # {}
    /\ LET between == Text(Indented(call.startLine) + 2, FirstCloserOn(call.startLine))
       IN  /\ Len(between) = 3
           /\ IsWhite(between[1]) /\ IsWhite(between[3])
           /\ LastToken.content = <<LETTER>>
    /\ call.startLine > 0

\* the lines after startLine and before endLine that are exactly "$$"
ExactEnds == {l \in (call.startLine + 1)..(call.endLine - 1) : ExactlyMarker(l)}
FirstExactEnd == CHOOSE l \in ExactEnds : \A m \in ExactEnds : l <= m

\* the slow path is taken at startLine and some later line is exactly "$$"
SlowPathWithExactEnd ==
    /\ BlockCalled /\ ~call.silent
    /\ OpensBlock(call.startLine)
    /\ ClosersOn(call.startLine) = {}
    /\ ExactEnds # {}

\* trim(join("\n", trimmed rest of the first line, then the raw lines up to
\* line t)): consecutive raw lines joined by "\n" are the text of src from
\* the start of the first to the end of the last
ExpectedSlowContent(t) ==
    LET rest == TrimSpec(Text(Indented(call.startLine) + 2, EMark(call.startLine)))
    IN  IF t = call.startLine + 1 THEN TrimSpec(rest)
        ELSE TrimSpec(rest \o <<NL>> \o Text(BMark(call.startLine + 1), EMark(t - 1)))

SlowPathResult(t) ==
    /\ call.ret
    /\ PushedOne
    /\ LastToken.type = "gladst_block_math"
    /\ LastToken.content = ExpectedSlowContent(t)
    /\ LastToken.map = <<call.startLine, t + 1>>
    /\ line = t + 1

\* C2 as stated: block rule, slow path. When the first line starts with "$$"
\* without a closing "$$" on it and some later line before endLine is exactly
\* "$$" after trimming, the token's content is trim(join "\n" of the trimmed
\* rest of the first line and every intervening raw line) and state.line and
\* token.map[1] are the index of the first such line plus one.
C2_AsStated == SlowPathWithExactEnd => SlowPathResult(FirstExactEnd)

\* C2 amended: the same, provided no line between the first line and the
\* first line that is exactly "$$" ends with "$$" after trimming (such a line
\* terminates the block earlier).
C2_SlowPath ==
    (/\ SlowPathWithExactEnd
     /\ \A l \in (call.startLine + 1)..(FirstExactEnd - 1) : ~EndsWithMarker(l))
    => SlowPathResult(FirstExactEnd)

\* C2 witness: a slow-path call ended by a "$$" line, with text on the first
\* line and an intervening raw line
C2_Witness ==
    /\ SlowPathWithExactEnd
    /\ FirstExactEnd = call.startLine + 2
    /\ ~EndsWithMarker(call.startLine + 1)
    /\ LastToken.content = <<LETTER, NL, LETTER>>

\* C3: block rule, unterminated. When the line at startLine starts with "$$",
\* has no closing "$$" on the same line, and no line after it and before
\* endLine equals "$$" or ends with "$$" after trimming, the rule returns
\* false, pushes no token and leaves state.line unchanged, silent or not.
C3_Unterminated ==
    (/\ BlockCalled
     /\ OpensBlock(call.startLine)
     /\ ClosersOn(call.startLine) = {}
     /\ \A l \in (call.startLine + 1)..(call.endLine - 1) : ~EndsWithMarker(l))
    => /\ ~call.ret
       /\ PushedNone
       /\ line = call.cursor0

\* C3 witness: a non-silent unterminated call with content lines gathered,
\* whose terminator lies at or beyond endLine
C3_Witness ==
    /\ BlockCalled /\ ~call.silent
    /\ OpensBlock(call.startLine)
    /\ ClosersOn(call.startLine) = {}
    /\ call.endLine > call.startLine + 1
    /\ \A l \in (call.startLine + 1)..(call.endLine - 1) : ~EndsWithMarker(l)
    /\ \E l \in call.endLine..(lineMax - 1) : ExactlyMarker(l)
    /\ ~call.ret

\* C4: non-empty region invariant. Every gladst_block_math and
\* gladst_inline_math token in the token stream has non-empty content.
C4_NonEmptyContent ==
    \A i \in 1..Len(tokens) : tokens[i].content # <<>>

\* ======================================================================
\* Properties of the inline rule (checked under SpecInline)
\* ======================================================================
At(i) == CharAt(src, i)
InlineCalled == call.rule = "inline"

\* where the rule was called, and the closing marker of a successful call
OpenAt == call.cursor0
ClosedAt == pos - 1

\* the first "$" after position p
DollarsAfter(p) == {i \in (p + 1)..(Len(src) - 1) : At(i) = DOLLAR}
FirstDollarAfter(p) == CHOOSE i \in DollarsAfter(p) : \A j \in DollarsAfter(p) : i <= j

\* the text X of "$X$" at p is non-blank and holds no backslash and no newline
PlainText(x) ==
    /\ \E i \in 1..Len(x) : ~IsWhite(x[i])
    /\ \A i \in 1..Len(x) : x[i] # BSLASH /\ x[i] # NL

\* a non-silent call at "$X$" with X plain and the closing "$" before posMax
CalledAtPlainMath ==
    /\ InlineCalled /\ ~call.silent
    /\ At(OpenAt) = DOLLAR
    /\ DollarsAfter(OpenAt) # {}
    /\ FirstDollarAfter(OpenAt) < posMax
    /\ PlainText(Text(OpenAt + 1, FirstDollarAfter(OpenAt)))

InlineSuccess(c) ==
    /\ call.ret
    /\ PushedOne
    /\ LastToken.type = "gladst_inline_math"
    /\ LastToken.content = TrimSpec(Text(OpenAt + 1, c))
    /\ LastToken.markup = <<DOLLAR>>
    /\ pos = c + 1

\* C5 as stated: inline rule success. For text "$X$" at state.pos where X is
\* non-blank and contains no "$", no backslash and no newline, a non-silent
\* call returns true, pushes exactly one gladst_inline_math token with
\* content trim(X) and markup "$", and sets state.pos just after the closing
\* "$".
C5_AsStated == CalledAtPlainMath => InlineSuccess(FirstDollarAfter(OpenAt))

\* C5 amended: the same, provided the opening "$" is not immediately preceded
\* by a backslash and the closing "$" is not immediately followed by another
\* "$" before posMax.
C5_InlineSuccess ==
    (/\ CalledAtPlainMath
     /\ ~(OpenAt > 0 /\ At(OpenAt - 1) = BSLASH)
     /\ ~(FirstDollarAfter(OpenAt) + 1 < posMax
          /\ At(FirstDollarAfter(OpenAt) + 1) = DOLLAR))
    => InlineSuccess(FirstDollarAfter(OpenAt))

\* C5 witness: a successful call with text before the opening "$" and text
\* after the closing "$"
C5_Witness ==
    /\ CalledAtPlainMath
    /\ call.ret
    /\ OpenAt > 0
    /\ At(OpenAt - 1) = LETTER
    /\ pos < posMax
    /\ At(pos) = LETTER

\* C6: inline rule decline leaves the state untouched. Whenever the rule
\* returns false, state.pos equals its value before the call and no token
\* has been pushed.
C6_DeclineFrame ==
    (InlineCalled /\ ~call.ret) => (pos = call.cursor0 /\ PushedNone)

\* C6 witness: a non-silent call declined at "$ $" because the trimmed
\* content is empty
C6_Witness ==
    /\ InlineCalled /\ ~call.silent /\ ~call.ret
    /\ At(OpenAt) = DOLLAR
    /\ ~(OpenAt > 0 /\ At(OpenAt - 1) = BSLASH)
    /\ At(OpenAt + 1) = SP
    /\ At(OpenAt + 2) = DOLLAR
    /\ OpenAt + 2 < posMax
    /\ At(OpenAt + 3) # DOLLAR

\* C7: escaped opener. When the character at state.pos is "$" and the
\* character before it is a backslash, the rule returns false whatever
\* follows.
C7_EscapedOpener ==
    (/\ InlineCalled
     /\ OpenAt > 0
     /\ At(OpenAt) = DOLLAR
     /\ At(OpenAt - 1) = BSLASH)
    => ~call.ret

\* C7 witness: a call at the "$" of "\$a$", where a closing "$" follows
C7_Witness ==
    /\ InlineCalled /\ ~call.silent
    /\ OpenAt > 0
    /\ At(OpenAt - 1) = BSLASH
    /\ At(OpenAt) = DOLLAR
    /\ At(OpenAt + 1) = LETTER
    /\ At(OpenAt + 2) = DOLLAR
    /\ OpenAt + 2 < posMax
    /\ ~call.ret

\* C8: inline math never spans lines. No emitted gladst_inline_math token has
\* content containing a newline, also when the newline is preceded by a
\* backslash or by a "$$" pair.
C8_NoNewlineInInline ==
    \A i \in 1..Len(tokens) :
        tokens[i].type = "gladst_inline_math" =>
            \A k \in 1..Len(tokens[i].content) : tokens[i].content[k] # NL

\* ---- the scan, stated by positions ------------------------------------
\* how many characters ch stand immediately before position i, after p
RunBefore(p, i, ch) ==
    CHOOSE k \in 0..(i - p - 1) :
        /\ \A j \in 1..k : At(i - j) = ch
        /\ (k = i - p - 1 \/ At(i - k - 1) # ch)

\* position i is the character after a backslash the scan reaches: an odd
\* number of backslashes stands immediately before it
Escaped(p, i) == RunBefore(p, i, BSLASH) % 2 = 1

\* the "$" at i is reached by the scan: within its run of "$" the scan steps
\* two at a time, from the run's first "$" that is not escaped
ReachedDollar(p, i) ==
    /\ At(i) = DOLLAR
    /\ LET d == RunBefore(p, i, DOLLAR)
       IN  IF Escaped(p, i - d) THEN d % 2 = 1 ELSE d % 2 = 0

FollowedByDollar(i) == i + 1 < posMax /\ At(i + 1) = DOLLAR

\* where the scan from p stops: at a reached "$" not followed by "$", or at a
\* newline that is not escaped
ScanStops(p) ==
    {i \in (p + 1)..(posMax - 1) :
        \/ ReachedDollar(p, i) /\ ~FollowedByDollar(i)
        \/ At(i) = NL /\ ~Escaped(p, i)}

\* the closing marker of the region opened at p, or -1
ClosingSpec(p) ==
    IF ScanStops(p) = {} THEN -1
    ELSE LET m == CHOOSE i \in ScanStops(p) : \A j \in ScanStops(p) : i <= j
         IN  IF At(m) = DOLLAR THEN m ELSE -1

\* the rule was called at a "$" that opens a region
CalledAtOpener ==
    /\ InlineCalled
    /\ At(OpenAt) = DOLLAR
    /\ ~(OpenAt > 0 /\ At(OpenAt - 1) = BSLASH)
    /\ At(OpenAt + 1) # DOLLAR

\* C9: inside an inline scan, a "$" immediately followed by another "$" (both
\* before posMax) is never taken as the closing marker: both are skipped and
\* scanning continues, so the region closes only at the first later "$" the
\* scan reaches that is not followed by "$", and the rule fails if there is
\* none.
C9_DollarPairSkipped ==
    CalledAtOpener =>
        /\ (call.ret /\ ~call.silent) =>
               /\ ~FollowedByDollar(ClosedAt)
               /\ ClosedAt = ClosingSpec(OpenAt)
               /\ LastToken.content = TrimSpec(Text(OpenAt + 1, ClosedAt))
        /\ ClosingSpec(OpenAt) = -1 => ~call.ret

\* C9 witness: a region closed after a skipped "$$" pair, which its content
\* keeps
C9_Witness ==
    /\ CalledAtOpener /\ call.ret /\ ~call.silent
    /\ \E i \in (OpenAt + 1)..(ClosedAt - 2) :
          /\ At(i) = LETTER /\ At(i + 1) = DOLLAR /\ At(i + 2) = DOLLAR
          /\ i + 2 < ClosedAt
    /\ LastToken.content = <<LETTER, DOLLAR, DOLLAR>>

\* C10 as stated: a backslash and the character after it are skipped as a
\* pair: a "$" immediately after a backslash is never chosen as the closing
\* marker, and the emitted content keeps the backslash and the escaped
\* character unmodified.
C10_AsStated ==
    (InlineCalled /\ call.ret /\ ~call.silent) =>
        /\ At(ClosedAt - 1) # BSLASH
        /\ LastToken.content = TrimSpec(Text(OpenAt + 1, ClosedAt))

\* C10 amended: a "$" immediately after a backslash that the scan reaches
\* (one that is not itself the character skipped after a preceding
\* backslash) is never chosen as the closing marker, and the emitted content
\* is the trimmed literal text between the markers, backslashes and escaped
\* characters as written.
C10_BackslashPairSkipped ==
    (InlineCalled /\ call.ret /\ ~call.silent) =>
        /\ ~Escaped(OpenAt, ClosedAt)
        /\ LastToken.content = TrimSpec(Text(OpenAt + 1, ClosedAt))

\* C10 witness: a region whose content holds an escaped "$"
C10_Witness ==
    /\ InlineCalled /\ call.ret /\ ~call.silent
    /\ \E i \in (OpenAt + 1)..(ClosedAt - 2) :
          At(i) = BSLASH /\ At(i + 1) = DOLLAR /\ Escaped(OpenAt, i + 1)
    /\ \E k \in 1..(Len(LastToken.content) - 1) :
          LastToken.content[k] = BSLASH /\ LastToken.content[k + 1] = DOLLAR

\* ======================================================================
\* The silent probe of the block rule (checked under SpecBlock)
\* ======================================================================
\* a region opens at line l and is closed on it or on a later line before
\* endLine
BlockMatches(l, endLine) ==
    /\ OpensBlock(l)
    /\ \/ ClosersOn(l) # {}
       \/ \E m \in (l + 1)..(endLine - 1) : EndsWithMarker(m)

\* C11: block silent probe. A call with silent = true pushes no token and
\* leaves state.line, and it returns true exactly when a call with
\* silent = false on the same state, startLine and endLine would return true.
C11_BlockSilentProbe ==
    (BlockCalled /\ call.silent) =>
        /\ PushedNone
        /\ line = call.cursor0
        /\ call.ret = gladstBlockRule(call.startLine, call.endLine, FALSE).ret
        /\ call.ret = BlockMatches(call.startLine, call.endLine)

\* C11 witness: a probe at a line after state.line that matches a region
\* closed on a later line
C11_Witness ==
    /\ BlockCalled /\ call.silent /\ call.ret
    /\ call.startLine > call.cursor0
    /\ ClosersOn(call.startLine) = {}
    /\ Len(tokens) = 0

\* ======================================================================
\* Properties of the plugin's installation (checked under SpecPlugin)
\* ======================================================================
\* the calls of addon.renderLatex and of addon.setFontConfig in the log
RenderLatexCalls ==
    {i \in 1..Len(addonCalls) : addonCalls[i].fn = "renderLatex"}
SetFontConfigCalls ==
    {i \in 1..Len(addonCalls) : addonCalls[i].fn = "setFontConfig"}

\* the user's ppi is a number above zero
PositivePpi ==
    /\ userOptions.ppi.t = "number"
    /\ userOptions.ppi.s = ""
    /\ userOptions.ppi.n > 0

\* a font source field that names a font: a string that is not empty
Given(v) == v.t = "string" /\ v.s # ""

\* a slot with both `system` and `file` set
ConflictIn(source) ==
    source.present /\ Given(source.system) /\ Given(source.file)
UserConflict ==
    /\ userOptions.fonts.present
    /\ \/ ConflictIn(userOptions.fonts.bodyFont)
       \/ ConflictIn(userOptions.fonts.mathFont)

\* a slot with `system` or `file` set
SourceIn(source) ==
    source.present /\ (Given(source.system) \/ Given(source.file))
HasSource ==
    /\ userOptions.fonts.present
    /\ \/ SourceIn(userOptions.fonts.bodyFont)
       \/ SourceIn(userOptions.fonts.mathFont)

\* C12 (as stated): whenever the user's ppi is absent, null, not a number,
\* zero or negative, every renderLatex call gets ppi = null (the engine's
\* default), and installation fails for no reason but a font conflict; a
\* positive numeric ppi is passed through unchanged.
C12_EngineDefaultPpi ==
    /\ \A i \in RenderLatexCalls :
        addonCalls[i].options.ppi =
            IF PositivePpi THEN userOptions.ppi ELSE Null
    /\ session.pc = "threw" => UserConflict

\* C13: every renderLatex call gets format "png" exactly when the user's
\* format option is the string "png"; without options, without a format and
\* for every other value it gets "svg".
C13_FormatDefault ==
    \A i \in RenderLatexCalls :
        addonCalls[i].options.format =
            IF /\ userOptions.present
               /\ userOptions.format.t = "string"
               /\ userOptions.format.s = "png"
            THEN "png" ELSE "svg"

C13_Witness ==
    /\ userOptions.format = Str("PNG")
    /\ \E i \in RenderLatexCalls : addonCalls[i].options.format = "svg"

\* C14: when bodyFont or mathFont has both `system` and `file` set (each a
\* string that is not empty), installing throws whatever the format, the ppi
\* and the other slot are; and whenever installing throws, setFontConfig has
\* not been called and no rule and no renderer callback is registered.
C14_FontConflict ==
    /\ (UserConflict /\ session.pc # "start") => session.pc = "threw"
    /\ session.pc = "threw" =>
        /\ addonCalls = <<>>
        /\ session.registered = {}
        /\ renders = <<>>

C14_Witness ==
    /\ session.pc = "threw"
    /\ ConflictIn(userOptions.fonts.mathFont)
    /\ SourceIn(userOptions.fonts.bodyFont)
    /\ ~ConflictIn(userOptions.fonts.bodyFont)
    /\ userOptions.format = Str("png")
    /\ userOptions.ppi = Num(600)

\* C15: in an installed session setFontConfig has been called exactly once if
\* the user's fonts name a source in some slot and not at all otherwise
\* (no fonts, or slots with neither system nor file); it is not called
\* before installation; and its call comes before every renderLatex call.
C15_SetFontConfigOnce ==
    /\ session.pc = "start" => SetFontConfigCalls = {}
    /\ session.pc = "installed" =>
        Cardinality(SetFontConfigCalls) = (IF HasSource THEN 1 ELSE 0)
    /\ \A i \in SetFontConfigCalls : \A j \in RenderLatexCalls : i < j

C15_Witness ==
    /\ session.pc = "installed"
    /\ Cardinality(SetFontConfigCalls) = 1
    /\ Cardinality(RenderLatexCalls) = 2
    /\ ~userOptions.fonts.bodyFont.present

\* C16: when setFontConfig returned false or threw, the installation has
\* completed, both rules and both renderer callbacks are registered, and
\* every renderLatex call gets the options it gets after a successful
\* setFontConfig.
C16_FontFailureNotFatal ==
    \A k \in SetFontConfigCalls :
        addonCalls[k].result \in {"false", "throw"} =>
            /\ session.pc = "installed"
            /\ session.registered =
                 {"block.ruler:gladst_block", "inline.ruler:gladst_inline",
                  "renderer.rules:gladst_block_math",
                  "renderer.rules:gladst_inline_math"}
            /\ \A i \in RenderLatexCalls :
                 addonCalls[i].options =
                     gladstPlugin(userOptions, "true").session.internalOptions

C16_Witness ==
    /\ \E k \in SetFontConfigCalls : addonCalls[k].result = "throw"
    /\ RenderLatexCalls # {}

\* ======================================================================
\* Properties of the renderer callbacks (checked under SpecPlugin and
\* SpecRender)
\* ======================================================================
\* s begins with p
HasPrefix(s, p) == Len(s) >= Len(p) /\ SubSeq(s, 1, Len(p)) = p
\* s ends with p
HasSuffix(s, p) ==
    Len(s) >= Len(p) /\ SubSeq(s, Len(s) - Len(p) + 1, Len(s)) = p

\* the renderer callback has run
Rendered == rendered.ext.kind # "none"
\* addon.renderLatex threw in the last callback
RenderLatexThrew ==
    rendered.called /\ rendered.ext.kind \in {"throwError", "throwOther"}

\* C17 (as stated): the renderer callback returns a string and never throws,
\* whatever renderLatex does; when renderLatex throws the fragment is a div
\* of class gladst-error-block (block token) or a span of class
\* gladst-error-inline (inline token); and after a token whose renderLatex
\* call threw, renderLatex is called for every following token of the
\* document.
C17_Containment ==
    /\ Rendered => ~rendered.threw /\ rendered.html \in Seq(STRING)
    /\ RenderLatexThrew =>
        IF rendered.block
        THEN /\ HasPrefix(rendered.html, <<"<", "d", "i", "v", " ", "c",
              "l", "a", "s", "s", "=", "\"", "g", "l", "a", "d", "s", "t",
                    "-", "e", "r", "r", "o", "r", "-", "b", "l", "o", "c",
                          "k", "\"", " ">>)
             /\ HasSuffix(rendered.html, <<"<", "/", "d", "i", "v", ">">>)
        ELSE /\ HasPrefix(rendered.html, <<"<", "s", "p", "a", "n", " ",
              "c", "l", "a", "s", "s", "=", "\"", "g", "l", "a", "d", "s",
                    "t", "-", "e", "r", "r", "o", "r", "-", "i", "n", "l",
                          "i", "n", "e", "\"", " ">>)
             /\ HasSuffix(rendered.html, <<"<", "/", "s", "p", "a", "n",
                   ">">>)
    /\ \A i \in 1..Len(renders) : \A j \in (i + 1)..Len(renders) :
        renders[i].failed => renders[j].called

\* C18: when renderLatex returns a string that begins with
\* `<span class="gladst-error` or `<div class="gladst-error`, the fragment
\* is that string; any other string comes back between
\* `<div class="gladst-block">` and `</div>` for a block token, between
\* `<span class="gladst-inline">` and `</span>` for an inline token.
C18_WrapOrPassThrough ==
    (rendered.called /\ rendered.ext.kind = "return") =>
        LET v == rendered.ext.value IN
        IF \/ HasPrefix(v, <<"<", "s", "p", "a", "n", " ", "c", "l", "a",
              "s", "s", "=", "\"", "g", "l", "a", "d", "s", "t", "-", "e",
                    "r", "r", "o", "r">>)
           \/ HasPrefix(v, <<"<", "d", "i", "v", " ", "c", "l", "a", "s",
                 "s", "=", "\"", "g", "l", "a", "d", "s", "t", "-", "e",
                       "r", "r", "o", "r">>)
        THEN rendered.html = v
        ELSE IF rendered.block
        THEN rendered.html = <<"<", "d", "i", "v", " ", "c", "l", "a",
              "s", "s", "=", "\"", "g", "l", "a", "d", "s", "t", "-", "b",
                    "l", "o", "c", "k", "\"", ">">> \o v \o <<"<", "/",
                          "d", "i", "v", ">">>
        ELSE rendered.html = <<"<", "s", "p", "a", "n", " ", "c", "l",
              "a", "s", "s", "=", "\"", "g", "l", "a", "d", "s", "t", "-",
                    "i", "n", "l", "i", "n", "e", "\"",
                          ">">> \o v \o <<"<", "/", "s", "p", "a", "n", ">">>

C18_Witness ==
    /\ rendered.called
    /\ rendered.block
    /\ rendered.ext = [kind |-> "return", value |-> RustSpanError]
    /\ rendered.html = RustSpanError

\* the first position at which p stands in s (0 when it stands nowhere)
FirstAt(s, p) ==
    LET at == {i \in 1..(Len(s) - Len(p) + 1) :
                  SubSeq(s, i, i + Len(p) - 1) = p}
    IN  IF at = {} THEN 0 ELSE CHOOSE i \in at : \A j \in at : i <= j

\* the positions of the error fragment that hold the formula: from behind
\* `Critical Error rendering: ` and the delimiter up to the delimiter before
\* the closing tag
FormulaPart ==
    LET label == <<"C", "r", "i", "t", "i", "c", "a", "l", " ", "E", "r",
          "r", "o", "r", " ", "r", "e", "n", "d", "e", "r", "i", "n", "g",
                ":", " ">>
        close == IF rendered.block THEN <<"<", "/", "d", "i", "v",
              ">">> ELSE <<"<", "/", "s", "p", "a", "n", ">">>
        from  == FirstAt(rendered.html, label) + Len(label)
                 + Len(rendered.markup)
        to    == Len(rendered.html) - Len(close) - Len(rendered.markup)
    IN  from..to

\* C19 (as stated): in an error fragment the plugin produces, the part that
\* holds the formula contains none of the characters `<`, `>` and `"`.
C19_FormulaEscaped ==
    (rendered.called /\ rendered.ext.kind # "return") =>
        \A k \in FormulaPart : rendered.html[k] \notin {LT, GT, QUOTE}

\* the value of the title attribute: from behind the first `title="` up to
\* the next `"`
TitleFrom == FirstAt(rendered.html, <<"t", "i", "t", "l", "e", "=",
      "\"">>) + Len(<<"t", "i", "t", "l", "e", "=", "\"">>)
TitleTo ==
    CHOOSE k \in TitleFrom..Len(rendered.html) :
        /\ rendered.html[k] = QUOTE
        /\ \A j \in TitleFrom..(k - 1) : rendered.html[j] # QUOTE
TitleValue == SubSeq(rendered.html, TitleFrom, TitleTo - 1)

\* s with the entities &lt; &gt; &quot; read back as characters
RECURSIVE Decoded(_)
Decoded(s) ==
    IF s = <<>> THEN <<>>
    ELSE IF HasPrefix(s, <<"&", "l", "t", ";">>)
    THEN <<LT>> \o Decoded(SubSeq(s, 5, Len(s)))
    ELSE IF HasPrefix(s, <<"&", "g", "t", ";">>)
    THEN <<GT>> \o Decoded(SubSeq(s, 5, Len(s)))
    ELSE IF HasPrefix(s, <<"&", "q", "u", "o", "t", ";">>)
    THEN <<QUOTE>> \o Decoded(SubSeq(s, 7, Len(s)))
    ELSE <<Head(s)>> \o Decoded(Tail(s))

\* C20: when renderLatex throws, the error fragment has a title attribute
\* whose value holds no `<`, `>` or `"` and ends where the opening tag ends;
\* read back, the value is the Error's message, and for a thrown value that
\* is not an Error it is `Unknown render execution error`.
C20_TitleEscaped ==
    RenderLatexThrew =>
        /\ FirstAt(rendered.html, <<"t", "i", "t", "l", "e", "=", "\"">>) > 0
        /\ \A k \in 1..Len(TitleValue) : TitleValue[k] \notin {LT, GT, QUOTE}
        /\ HasPrefix(SubSeq(rendered.html, TitleTo, Len(rendered.html)),
                     <<"\"", ">", "C", "r", "i", "t", "i", "c", "a", "l",
                           " ", "E", "r", "r", "o", "r", " ", "r", "e",
                                 "n", "d", "e", "r", "i", "n", "g", ":",
                                       " ">>)
        /\ Decoded(TitleValue) =
             IF rendered.ext.kind = "throwError" THEN rendered.ext.value
             ELSE <<"U", "n", "k", "n", "o", "w", "n", " ", "r", "e", "n",
                   "d", "e", "r", " ", "e", "x", "e", "c", "u", "t", "i",
                         "o", "n", " ", "e", "r", "r", "o", "r">>

C20_Witness ==
    /\ RenderLatexThrew
    /\ rendered.ext = [kind |-> "throwError", value |-> <<LT, QUOTE>>]
    /\ TitleValue = <<"&", "l", "t", ";", "&", "q", "u", "o", "t", ";">>

\* ======================================================================
\* Properties of several sessions in one process (checked under
\* SpecSessions)
\* ======================================================================
\* C21 (as stated): when the instances are installed with font configurations
\* that differ from one another and every setFontConfig call succeeded, each
\* renderLatex call of a session runs while the addon's font configuration
\* is the one that session passed to setFontConfig.
C21_FontIsolation ==
    (/\ \A i \in SessionIds : mdSessions[i].fontResult \in {"none", "true"}
     /\ \A i \in SessionIds : \A j \in SessionIds \ {i} :
          /\ mdSessions[i].userOptions.fonts.present
          /\ mdSessions[i].userOptions.fonts # mdSessions[j].userOptions.fonts)
    => \A k \in 1..Len(sessionRenders) :
          /\ sessionRenders[k].active.by = sessionRenders[k].session
          /\ sessionRenders[k].active.fonts = sessionRenders[k].options.fonts

\* ======================================================================
\* Further properties of the inline rule (checked under SpecInline)
\* ======================================================================
\* C22 (as stated): a call of the inline rule at a "$" that has another "$"
\* right after it or right before it returns false, in silent mode and in
\* normal mode.
C22_SingleDollarOnly ==
    (/\ InlineCalled
     /\ At(OpenAt) = DOLLAR
     /\ \/ At(OpenAt + 1) = DOLLAR
        \/ OpenAt > 0 /\ At(OpenAt - 1) = DOLLAR)
    => ~call.ret

\* C23 (as stated): a silent call of the inline rule pushes no token, and it
\* returns true exactly when the call with silent = false at the same
\* position returns true and pushes a token.
C23_InlineSilentProbe ==
    (InlineCalled /\ call.silent /\ pos = call.cursor0) =>
        /\ PushedNone
        /\ call.ret = (/\ gladstInlineRule(FALSE).ret
                       /\ gladstInlineRule(FALSE).push # <<>>)

\* ======================================================================
\* Further properties of the renderer callbacks (checked under SpecRender)
\* ======================================================================
\* C24: renderLatex is called only for a token with content and markup; for
\* a token whose content or markup is empty no addon call is made and the
\* callback returns the `Internal Plugin Error: Token invalid` text in a div
\* of class gladst-error-block (block token) or a span of class
\* gladst-error-inline (inline token).
C24_TokenInvalid ==
    LET div ==
          <<"<", "d", "i", "v", " ", "c", "l", "a", "s", "s", "=", "\"",
                "g", "l", "a", "d", "s", "t", "-", "e", "r", "r", "o",
                  "r", "-", "b", "l", "o", "c", "k", "\"", ">", "I", "n",
                  "t", "e", "r", "n", "a", "l", " ", "P", "l", "u", "g",
                  "i", "n", " ", "E", "r", "r", "o", "r", ":", " ", "T",
                  "o", "k", "e", "n", " ", "i", "n", "v", "a", "l", "i",
                  "d", "<", "/", "d", "i", "v", ">">>
        span ==
          <<"<", "s", "p", "a", "n", " ", "c", "l", "a", "s", "s", "=",
                "\"", "g", "l", "a", "d", "s", "t", "-", "e", "r", "r",
                  "o", "r", "-", "i", "n", "l", "i", "n", "e", "\"", ">",
                  "I", "n", "t", "e", "r", "n", "a", "l", " ", "P", "l",
                  "u", "g", "i", "n", " ", "E", "r", "r", "o", "r", ":",
                  " ", "T", "o", "k", "e", "n", " ", "i", "n", "v", "a",
                  "l", "i", "d", "<", "/", "s", "p", "a", "n", ">">>
    IN
    /\ rendered.called => rendered.content # <<>> /\ rendered.markup # <<>>
    /\ RenderLatexCalls # {} => rendered.called
    /\ (Rendered /\ (rendered.content = <<>> \/ rendered.markup = <<>>)) =>
        /\ ~rendered.called
        /\ addonCalls = <<>>
        /\ rendered.html = IF rendered.block THEN div ELSE span

C24_Witness ==
    /\ Rendered
    /\ ~rendered.block
    /\ rendered.content = <<LETTER>>
    /\ rendered.markup = <<>>
    /\ rendered.ext.kind = "return"
    /\ ~rendered.called
    /\ HasPrefix(rendered.html, <<"<", "s", "p", "a", "n", " ", "c", "l",
          "a", "s", "s", "=", "\"", "g", "l", "a", "d", "s", "t", "-",
                "e", "r", "r", "o", "r", "-", "i", "n", "l", "i", "n",
                  "e", "\"", ">", "I", "n", "t", "e", "r", "n", "a", "l">>)

\* ======================================================================
\* Further properties of the block rule (checked under SpecBlock)
\* ======================================================================
\* the text of line l behind its first closing "$$"
TailOf(l) == Text(FirstCloserOn(l) + 2, EMark(l))

\* C25: for every block token whose first line holds a closing "$$" behind
\* the opening marker: its content is the trimmed text between the opening
\* marker and the first such "$$", so nothing behind that marker is in it;
\* the token covers exactly that line and state.line is past it; and no
\* other token covers the line, so the text behind the closing marker is in
\* no token at all.
C25_FastPathFirstCloser ==
    \A i \in 1..Len(tokens) :
        LET l == tokens[i].map[1] IN
        (tokens[i].type = "gladst_block_math" /\ ClosersOn(l) # {}) =>
            /\ tokens[i].content =
                 TrimSpec(Text(Indented(l) + 2, FirstCloserOn(l)))
            /\ tokens[i].map = <<l, l + 1>>
            /\ line >= l + 1
            /\ \A j \in 1..Len(tokens) \ {i} :
                 tokens[j].map[2] <= l \/ tokens[j].map[1] >= l + 1

\* C25 witness: a line "$$a$$a$$": the token holds the first "a" only, the
\* tail "a$$" with its second closing marker is dropped
C25_Witness ==
    /\ Len(tokens) = 1
    /\ Cardinality(ClosersOn(tokens[1].map[1])) = 2
    /\ tokens[1].content = <<LETTER>>
    /\ TailOf(tokens[1].map[1]) = <<LETTER, DOLLAR, DOLLAR>>
    /\ line = tokens[1].map[2]

====
